---------------------------- MODULE Spec2Model ----------------------------
(* A model of scraper/compare_jobs.py: main() loads two JSON files,        *)
(* compare_entries() builds a lookup dictionary per file with              *)
(* build_lookup_dict() and classifies the entries of the updated file,     *)
(* save_results() writes the output.  One action per step of the run; the  *)
(* two loops (lines 103-123 and 160-174) take one action per iteration.    *)
EXTENDS Naturals, Sequences, FiniteSets

(***************************************************************************)
(* Bounds of the model.                                                    *)
(***************************************************************************)
\* longest list of entries in an input file of the main specification
MaxEntries == 2
\* longest list of entries in the updated file of SpecBuild
MaxBuildLen == 2

(***************************************************************************)
(* JSON values as Python objects.  kind is the Python type; num is the     *)
(* numeric value of a bool or a number (bool is a subclass of int: True is *)
(* 1); str is the content of a string.  A list is a Python list (mutable,  *)
(* so unhashable).  Absent marks a key the dictionary does not have.       *)
(***************************************************************************)
JBool(b) == [kind |-> "bool", num |-> IF b THEN 1 ELSE 0, str |-> ""]
JNum(n) == [kind |-> "num", num |-> n, str |-> ""]
JStr(s) == [kind |-> "str", num |-> 0, str |-> s]
JList == [kind |-> "list", num |-> 0, str |-> ""]
Absent == [kind |-> "absent", num |-> 0, str |-> ""]

\* Python's ==: a bool and a number compare by numeric value, values of
\* other types are equal when of the same type and content
PyEq(a, b) ==
    IF a.kind \in {"bool", "num"} /\ b.kind \in {"bool", "num"}
    THEN a.num = b.num
    ELSE a.kind = b.kind /\ a.num = b.num /\ a.str = b.str

\* hash(v) succeeds: lists (and dicts) raise TypeError: unhashable type
Hashable(v) == v.kind # "list"

(***************************************************************************)
(* Entries of an input list.  isdict is isinstance(entry, dict); id, text  *)
(* and deleted are the values of those keys, Absent when the key is        *)
(* missing.                                                                *)
(***************************************************************************)
Dict(i, t, d) == [isdict |-> TRUE, id |-> i, text |-> t, deleted |-> d]
\* an element of the list that is no JSON object (a string, a number)
NotADict == [isdict |-> FALSE, id |-> Absent, text |-> Absent, deleted |-> Absent]

\* entries of the main specification's files
Entries ==
    { Dict(JNum(1), JStr("a"), Absent),
      Dict(JNum(1), JStr("b"), Absent),
      Dict(JNum(2), JStr("a"), Absent),
      Dict(JNum(1), Absent, JBool(TRUE)),
      Dict(JNum(2), Absent, Absent),
      Dict(JList, JStr("a"), Absent) }

\* entries of SpecBuild's updated file: every shape build_lookup_dict tells apart
BuildEntries ==
    {NotADict} \cup
    { Dict(i, t, d) : i \in {Absent, JNum(1), JNum(2), JList},
                      t \in {Absent, JStr("a"), JStr("b")},
                      d \in {Absent, JBool(TRUE), JNum(1), JStr("true")} }

SeqsUpTo(S, n) == UNION { [1..k -> S] : k \in 0..n }

(***************************************************************************)
(* Files.  state is what load_json_file finds at the path.                 *)
(***************************************************************************)
FileList(data) == [state |-> "list", data |-> data]
BadFiles == { [state |-> s, data |-> <<>>] : s \in {"missing", "invalid", "notlist"} }
Files == BadFiles \cup { FileList(d) : d \in SeqsUpTo(Entries, MaxEntries) }

(***************************************************************************)
(* Python dictionaries: the sequence of (key, value) pairs in insertion    *)
(* order; keys are compared with ==.                                       *)
(***************************************************************************)
\* key in d, for a hashable key
KeyIn(key, d) == \E i \in 1..Len(d) : PyEq(d[i].key, key)
\* d[key], for a key in d
DictGet(d, key) == d[CHOOSE i \in 1..Len(d) : PyEq(d[i].key, key)].value
\* d[key] = value: a present key keeps its place and its key object
DictSet(d, key, value) ==
    IF KeyIn(key, d)
    THEN [i \in 1..Len(d) |->
            IF PyEq(d[i].key, key) THEN [key |-> d[i].key, value |-> value] ELSE d[i]]
    ELSE Append(d, [key |-> key, value |-> value])

VARIABLES
    original_file, updated_file,   \* the files at args.original, args.updated
    pc,                            \* position of the run
    original_entries, updated_entries,   \* main's locals (lines 263-264)
    file_name, entries, idx, lookup,     \* build_lookup_dict's frame
    invalid_count, duplicate_count, deleted_count,
    original_lookup, updated_lookup,     \* compare_entries' locals
    pos, new_entries, updated_entries_list, unchanged_count,
    results,                       \* compare_entries' return value
    exc,                           \* the exception in flight, "none" if none
    log,                           \* the lines logged so far
    save_called, output, printed, exit_code

vars == << original_file, updated_file, pc, original_entries, updated_entries,
           file_name, entries, idx, lookup, invalid_count, duplicate_count,
           deleted_count, original_lookup, updated_lookup, pos, new_entries,
           updated_entries_list, unchanged_count, results, exc, log,
           save_called, output, printed, exit_code >>

\* a message naming a file and an index or a count, and the line logging it
Msg(text, file, n) == [text |-> text, file |-> file, n |-> n]
LogLine(level, m) == [level |-> level, msg |-> m]
\* logging.info of a text that names no entry
Info(text, file, n) == LogLine("INFO", Msg(text, file, n))

\* a local not assigned yet, and one assigned
None == <<>>
Some(x) == <<x>>

(***************************************************************************)
(* The functions of the script.                                            *)
(***************************************************************************)
\* load_json_file without the isinstance check of line 56: iterating a JSON
\* object yields its keys, which are strings
load_json_file_no_list_check(file) ==
    IF file.state = "missing" THEN [exc |-> "FileNotFoundError", data |-> <<>>]
    ELSE IF file.state = "invalid" THEN [exc |-> "JSONDecodeError", data |-> <<>>]
    ELSE IF file.state = "notlist" THEN [exc |-> "none", data |-> << NotADict >>]
    ELSE [exc |-> "none", data |-> file.data]

\* load_json_file: the exception it raises ("none" if it returns) and the data
load_json_file(file) ==
    IF file.state = "missing" THEN [exc |-> "FileNotFoundError", data |-> <<>>]
    ELSE IF file.state = "invalid" THEN [exc |-> "JSONDecodeError", data |-> <<>>]
    ELSE IF file.state = "notlist" THEN [exc |-> "ValueError", data |-> <<>>]
    ELSE [exc |-> "none", data |-> file.data]

\* validate_entry without the check of line 81
validate_entry_no_text(entry, file, index) ==
    IF ~entry.isdict
    THEN [is_valid |-> FALSE, error_msg |-> Msg("is not a dictionary", file, index)]
    ELSE IF entry.id = Absent
    THEN [is_valid |-> FALSE, error_msg |-> Msg("is missing 'id' field", file, index)]
    ELSE [is_valid |-> TRUE, error_msg |-> Msg("", "", 0)]

\* validate_entry: (is_valid, error_msg)
validate_entry(entry, file, index) ==
    IF ~entry.isdict
    THEN [is_valid |-> FALSE, error_msg |-> Msg("is not a dictionary", file, index)]
    ELSE IF entry.id = Absent
    THEN [is_valid |-> FALSE, error_msg |-> Msg("is missing 'id' field", file, index)]
    ELSE IF entry.text = Absent
    THEN [is_valid |-> FALSE, error_msg |-> Msg("is missing 'text' field", file, index)]
    ELSE [is_valid |-> TRUE, error_msg |-> Msg("", "", 0)]

\* entry.get('deleted', False)
GetDeleted(entry) == IF entry.deleted = Absent THEN JBool(FALSE) ELSE entry.deleted
\* entry.get('text', '')
GetText(entry) == IF entry.text = Absent THEN JStr("") ELSE entry.text

\* line 105 placed after the validation: only a valid entry is skipped as deleted
IsDeleted_after_validation(entry) ==
    /\ entry.isdict /\ entry.id # Absent /\ entry.text # Absent
    /\ PyEq(GetDeleted(entry), JBool(TRUE))

\* line 105 as a truthiness test: if entry.get('deleted', False)
IsDeleted_truthy(entry) ==
    /\ entry.isdict
    /\ ~(GetDeleted(entry).kind \in {"bool", "num"} /\ GetDeleted(entry).num = 0)
    /\ GetDeleted(entry) # JStr("")

\* the condition of line 105
IsDeleted(entry) == entry.isdict /\ PyEq(GetDeleted(entry), JBool(TRUE))

\* line 118 without the test: every valid entry is stored
IsDuplicate_never(entry_id, d) == FALSE

\* line 118: entry_id in lookup, for a hashable entry_id
IsDuplicate(entry_id, d) == KeyIn(entry_id, d)

\* line 169 with == for !=
Classify_equal_text(entry_id, updated_entry, orig_lookup) ==
    IF ~KeyIn(entry_id, orig_lookup) THEN "new"
    ELSE IF PyEq(GetText(DictGet(orig_lookup, entry_id)), GetText(updated_entry))
         THEN "updated"
         ELSE "unchanged"

\* line 169 comparing the two entry objects with "is not": the entries of two
\* files are never the same object
Classify_by_identity(entry_id, updated_entry, orig_lookup) ==
    IF ~KeyIn(entry_id, orig_lookup) THEN "new" ELSE "updated"

\* the branch the loop body of compare_entries takes for one item
Classify(entry_id, updated_entry, orig_lookup) ==
    IF ~KeyIn(entry_id, orig_lookup) THEN "new"
    ELSE IF ~PyEq(GetText(DictGet(orig_lookup, entry_id)), GetText(updated_entry))
         THEN "updated"
         ELSE "unchanged"

\* line 160 iterating original_lookup.items()
Items_original(d) == original_lookup

\* updated_lookup.items(): what the loop of line 160 iterates
Items(d) == d

\* line 186 with len(updated_entries), the raw list
CompareResult_raw_total(orig_lookup, upd_lookup, new, upd, unchanged) ==
    [new_entries |-> new,
     updated_entries |-> upd,
     summary |-> [total_original |-> Len(orig_lookup),
                  total_updated |-> Len(updated_entries),
                  new_entries |-> Len(new),
                  updated_entries |-> Len(upd),
                  unchanged_entries |-> unchanged]]

\* the dictionary compare_entries returns
CompareResult(orig_lookup, upd_lookup, new, upd, unchanged) ==
    [new_entries |-> new,
     updated_entries |-> upd,
     summary |-> [total_original |-> Len(orig_lookup),
                  total_updated |-> Len(upd_lookup),
                  new_entries |-> Len(new),
                  updated_entries |-> Len(upd),
                  unchanged_entries |-> unchanged]]

\* the document save_results writes (the timestamp is left out)
OutputData(res) ==
    [complete |-> TRUE,
     original_file |-> "args.original", updated_file |-> "args.updated",
     summary |-> << res.summary >>, new_entries |-> res.new_entries,
     updated_entries |-> res.updated_entries]
\* an output file opened for writing whose json.dump did not finish
Truncated ==
    [complete |-> FALSE,
     original_file |-> "", updated_file |-> "",
     summary |-> <<>>, new_entries |-> <<>>, updated_entries |-> <<>>]

(***************************************************************************)
(* Initial states.                                                         *)
(***************************************************************************)
InitRun ==
    /\ pc = "load_original"
    /\ original_entries = <<>> /\ updated_entries = <<>>
    /\ file_name = "" /\ entries = <<>> /\ idx = 0 /\ lookup = <<>>
    /\ invalid_count = 0 /\ duplicate_count = 0 /\ deleted_count = 0
    /\ original_lookup = <<>> /\ updated_lookup = <<>>
    /\ pos = 0 /\ new_entries = <<>> /\ updated_entries_list = <<>>
    /\ unchanged_count = 0
    /\ results = None /\ exc = "none"
    /\ log = << Info("====", "", 0), Info("HN Job Posting Comparison Script", "", 0),
                Info("====", "", 0) >>
    /\ save_called = FALSE /\ output = None /\ printed = FALSE
    /\ exit_code = None

Init ==
    /\ original_file \in Files
    /\ updated_file \in Files
    /\ InitRun

\* one original file, every shape of entry in the updated file
InitBuild ==
    /\ original_file = FileList(<< Dict(JNum(1), JStr("a"), Absent) >>)
    /\ updated_file \in { FileList(d) : d \in SeqsUpTo(BuildEntries, MaxBuildLen) }
    /\ InitRun

(***************************************************************************)
(* main, lines 261-298.                                                    *)
(***************************************************************************)
build_frame == << file_name, entries, idx, lookup, invalid_count,
                  duplicate_count, deleted_count >>
compare_frame == << original_lookup, updated_lookup, pos, new_entries,
                    updated_entries_list, unchanged_count >>
files == << original_file, updated_file >>
outcome == << save_called, output, printed, exit_code >>

\* line 263
LoadOriginal ==
    /\ pc = "load_original"
    /\ LET r == load_json_file(original_file)
       IN  IF r.exc # "none"
           THEN /\ exc' = r.exc
                /\ pc' = "except"
                /\ log' = Append(log, Info("Loading JSON file", "args.original", 0))
                /\ UNCHANGED original_entries
           ELSE /\ original_entries' = r.data
                /\ pc' = "load_updated"
                /\ log' = log \o << Info("Loading JSON file", "args.original", 0),
                                    Info("Loaded entries", "args.original", Len(r.data)) >>
                /\ UNCHANGED exc
    /\ UNCHANGED << files, updated_entries, build_frame, compare_frame,
                    results, outcome >>

\* line 264
LoadUpdated ==
    /\ pc = "load_updated"
    /\ LET r == load_json_file(updated_file)
       IN  IF r.exc # "none"
           THEN /\ exc' = r.exc
                /\ pc' = "except"
                /\ log' = Append(log, Info("Loading JSON file", "args.updated", 0))
                /\ UNCHANGED updated_entries
           ELSE /\ updated_entries' = r.data
                /\ pc' = "compare_entries"
                /\ log' = log \o << Info("Loading JSON file", "args.updated", 0),
                                    Info("Loaded entries", "args.updated", Len(r.data)) >>
                /\ UNCHANGED exc
    /\ UNCHANGED << files, original_entries, build_frame, compare_frame,
                    results, outcome >>

\* line 267 and line 149: compare_entries calls build_lookup_dict(original_entries, "original")
CallCompare ==
    /\ pc = "compare_entries"
    /\ pc' = "build"
    /\ file_name' = "original"
    /\ entries' = original_entries
    /\ idx' = 0 /\ lookup' = <<>>
    /\ invalid_count' = 0 /\ duplicate_count' = 0 /\ deleted_count' = 0
    /\ log' = Append(log, Info("Building lookup dictionary", "original", 0))
    /\ UNCHANGED << files, original_entries, updated_entries, compare_frame,
                    results, exc, outcome >>

(***************************************************************************)
(* build_lookup_dict, lines 98-134.                                        *)
(***************************************************************************)
\* one iteration of the loop of lines 103-123, on entries[idx] (0-based)
BuildStep ==
    /\ pc = "build"
    /\ idx < Len(entries)
    /\ LET entry == entries[idx + 1]
           v == validate_entry(entry, file_name, idx)
       IN  IF IsDeleted(entry)
           THEN /\ deleted_count' = deleted_count + 1
                /\ idx' = idx + 1
                /\ UNCHANGED << pc, exc, log, lookup, invalid_count, duplicate_count >>
           ELSE IF ~v.is_valid
           THEN /\ log' = Append(log, LogLine("WARNING", v.error_msg))
                /\ invalid_count' = invalid_count + 1
                /\ idx' = idx + 1
                /\ UNCHANGED << pc, exc, lookup, duplicate_count, deleted_count >>
           ELSE IF ~Hashable(entry.id)
           \* line 118: entry_id in lookup hashes entry_id
           THEN /\ exc' = "TypeError"
                /\ pc' = "except"
                /\ UNCHANGED << log, idx, lookup, invalid_count, duplicate_count,
                                deleted_count >>
           ELSE IF IsDuplicate(entry.id, lookup)
           THEN /\ log' = Append(log, LogLine("WARNING", Msg("Duplicate id", file_name, idx)))
                /\ duplicate_count' = duplicate_count + 1
                /\ idx' = idx + 1
                /\ UNCHANGED << pc, exc, lookup, invalid_count, deleted_count >>
           ELSE /\ lookup' = DictSet(lookup, entry.id, entry)
                /\ idx' = idx + 1
                /\ UNCHANGED << pc, exc, log, invalid_count, duplicate_count,
                                deleted_count >>
    /\ UNCHANGED << files, original_entries, updated_entries, file_name, entries,
                    compare_frame, results, outcome >>

\* lines 125-132: the counts logged after the loop
BuildSummary ==
    (IF invalid_count > 0
     THEN << LogLine("WARNING", Msg("Skipped invalid entries", file_name, invalid_count)) >>
     ELSE <<>>)
    \o
    (IF duplicate_count > 0
     THEN << LogLine("WARNING", Msg("Skipped duplicate entries", file_name, duplicate_count)) >>
     ELSE <<>>)
    \o
    (IF deleted_count > 0
     THEN << LogLine("INFO", Msg("Skipped deleted entries", file_name, deleted_count)) >>
     ELSE <<>>)

\* lines 125-134 for the original file, then line 152: the call for the updated file
BuildReturnOriginal ==
    /\ pc = "build"
    /\ idx = Len(entries)
    /\ file_name = "original"
    /\ log' = log \o BuildSummary \o << Info("Building lookup dictionary", "updated", 0) >>
    /\ original_lookup' = lookup
    /\ file_name' = "updated"
    /\ entries' = updated_entries
    /\ idx' = 0 /\ lookup' = <<>>
    /\ invalid_count' = 0 /\ duplicate_count' = 0 /\ deleted_count' = 0
    /\ UNCHANGED << files, pc, original_entries, updated_entries, updated_lookup,
                    pos, new_entries, updated_entries_list, unchanged_count,
                    results, exc, outcome >>

\* lines 125-134 for the updated file, then lines 154-156
BuildReturnUpdated ==
    /\ pc = "build"
    /\ idx = Len(entries)
    /\ file_name = "updated"
    /\ log' = log \o BuildSummary \o << Info("Comparing entries...", "", 0) >>
    /\ updated_lookup' = lookup
    /\ pc' = "compare_loop"
    /\ pos' = 0
    /\ new_entries' = <<>> /\ updated_entries_list' = <<>>
    /\ unchanged_count' = 0
    /\ UNCHANGED << files, original_entries, updated_entries, build_frame,
                    original_lookup, results, exc, outcome >>

(***************************************************************************)
(* compare_entries, lines 160-191.                                         *)
(***************************************************************************)
\* one iteration of the loop of lines 160-174
CompareStep ==
    /\ pc = "compare_loop"
    /\ pos < Len(Items(updated_lookup))
    /\ LET entry_id == Items(updated_lookup)[pos + 1].key
           updated_entry == Items(updated_lookup)[pos + 1].value
           branch == Classify(entry_id, updated_entry, original_lookup)
       IN  /\ new_entries' =
                IF branch = "new" THEN Append(new_entries, updated_entry)
                ELSE new_entries
           /\ updated_entries_list' =
                IF branch = "updated" THEN Append(updated_entries_list, updated_entry)
                ELSE updated_entries_list
           /\ unchanged_count' =
                IF branch = "unchanged" THEN unchanged_count + 1
                ELSE unchanged_count
    /\ pos' = pos + 1
    /\ UNCHANGED << files, pc, original_entries, updated_entries, build_frame,
                    original_lookup, updated_lookup, results, exc, log, outcome >>

\* lines 176-191
CompareReturn ==
    /\ pc = "compare_loop"
    /\ pos = Len(Items(updated_lookup))
    /\ results' = Some(CompareResult(original_lookup, updated_lookup, new_entries,
                                     updated_entries_list, unchanged_count))
    /\ pc' = "save_results"
    /\ log' = log \o << Info("Comparison complete:", "", 0),
                        Info("New entries", "", Len(new_entries)),
                        Info("Updated entries", "", Len(updated_entries_list)),
                        Info("Unchanged entries", "", unchanged_count) >>
    /\ UNCHANGED << files, original_entries, updated_entries, build_frame,
                    compare_frame, exc, outcome >>

(***************************************************************************)
(* main, lines 270-298.                                                    *)
(***************************************************************************)
\* line 270, lines 204-218: save_results writes the output file; open() may
\* raise OSError before anything is written, and a write may raise it and
\* leave a truncated file
SaveResults ==
    /\ pc = "save_results"
    /\ save_called' = TRUE
    /\ \E io \in {"ok", "open fails", "write fails"} :
          IF io = "ok"
          THEN /\ output' = Some(OutputData(results[1]))
               /\ log' = log \o << Info("Saving results", "args.output", 0),
                                   Info("Results saved successfully", "args.output", 0) >>
               /\ pc' = "print"
               /\ UNCHANGED exc
          ELSE /\ output' = IF io = "write fails" THEN Some(Truncated) ELSE output
               /\ log' = Append(log, Info("Saving results", "args.output", 0))
               /\ exc' = "OSError"
               /\ pc' = "except"
    /\ UNCHANGED << files, original_entries, updated_entries, build_frame,
                    compare_frame, results, printed, exit_code >>

\* lines 273-283
PrintSummary ==
    /\ pc = "print"
    /\ printed' = TRUE
    /\ pc' = "return"
    /\ UNCHANGED << files, original_entries, updated_entries, build_frame,
                    compare_frame, results, exc, log, save_called, output, exit_code >>

\* lines 285-286
ReturnSuccess ==
    /\ pc = "return"
    /\ log' = Append(log, LogLine("INFO", Msg("Comparison completed successfully", "", 0)))
    /\ exit_code' = Some(0)
    /\ pc' = "returned"
    /\ UNCHANGED << files, original_entries, updated_entries, build_frame,
                    compare_frame, results, exc, save_called, output, printed >>

\* the text of the error line each handler of lines 288-298 logs
ErrorText(e) ==
    IF e = "FileNotFoundError" THEN "File error"
    ELSE IF e = "JSONDecodeError" THEN "JSON parsing error"
    ELSE "Unexpected error"

\* lines 288-298
Except ==
    /\ pc = "except"
    /\ log' = Append(log, LogLine("ERROR", Msg(ErrorText(exc), exc, 0)))
    /\ exit_code' = Some(1)
    /\ pc' = "returned"
    /\ UNCHANGED << files, original_entries, updated_entries, build_frame,
                    compare_frame, results, exc, save_called, output, printed >>

Next ==
    \/ LoadOriginal
    \/ LoadUpdated
    \/ CallCompare
    \/ BuildStep
    \/ BuildReturnOriginal
    \/ BuildReturnUpdated
    \/ CompareStep
    \/ CompareReturn
    \/ SaveResults
    \/ PrintSummary
    \/ ReturnSuccess
    \/ Except

Spec == Init /\ [][Next]_vars

SpecBuild == InitBuild /\ [][Next]_vars

(***************************************************************************)
(* Properties.  They are stated on the raw input lists, not with the       *)
(* operators of the model.                                                 *)
(***************************************************************************)
\* the entry carries deleted: true, the JSON boolean
MarkedDeleted(e) == e.isdict /\ e.deleted = JBool(TRUE)
\* the entry's deleted value equals True in Python: true, or the number 1
EqualsTrue(e) == e.isdict /\ e.deleted.kind \in {"bool", "num"} /\ e.deleted.num = 1
\* not a dictionary, or without id, or without text
Malformed(e) == ~e.isdict \/ e.id = Absent \/ e.text = Absent
Accepted(e) == ~EqualsTrue(e) /\ ~Malformed(e)
\* the indices of es whose entry is the first accepted one of its id
FirstAccepted(es) ==
    { i \in 1..Len(es) :
        /\ Accepted(es[i])
        /\ \A j \in 1..(i - 1) : Accepted(es[j]) => ~PyEq(es[j].id, es[i].id) }
\* the p-th smallest element of a set of numbers
Nth(S, p) == CHOOSE i \in S : Cardinality({ j \in S : j < i }) = p - 1
Stored(d) == { d[i].value : i \in 1..Len(d) }
InvalidTexts == { "is not a dictionary", "is missing 'id' field", "is missing 'text' field" }
\* log line l is a warning with one of these texts about entry i (1-based) of
\* the file being built
Warns(l, texts, i) ==
    /\ log[l].level = "WARNING"
    /\ log[l].msg.n = i - 1
    /\ log[l].msg.file = file_name
    /\ log[l].msg.text \in texts
LoggedInvalid(i) == \E l \in 1..Len(log) : Warns(l, InvalidTexts, i)
LoggedDuplicate(i) == \E l \in 1..Len(log) : Warns(l, {"Duplicate id"}, i)
\* exactly one such line
WarnedOnce(texts, i) ==
    \E l \in 1..Len(log) :
       /\ Warns(l, texts, i)
       /\ \A k \in 1..Len(log) : Warns(k, texts, i) => k = l
\* updated_lookup holds the return value of build_lookup_dict
Compared == pc = "compare_loop" \/ results # None

\* C1: the summary compare_entries returns has total_updated = new_entries +
\* updated_entries + unchanged_entries, total_updated being the number of
\* identities of the updated file's canonical mapping; inside the loop the
\* three counts add up to the number of identities visited so far.
SummaryAddsUp ==
    /\ pc = "compare_loop" =>
         pos = Len(new_entries) + Len(updated_entries_list) + unchanged_count
    /\ results # None =>
         LET s == results[1].summary
         IN  /\ s.total_updated = s.new_entries + s.updated_entries + s.unchanged_entries
             /\ s.total_updated = Cardinality(FirstAccepted(updated_entries))

\* a summary of a file of two entries, one of them dropped, the other updated
SummaryWitness ==
    /\ results # None
    /\ Len(updated_entries) = 2
    /\ results[1].summary.total_updated = 1
    /\ results[1].summary.updated_entries = 1

\* C2: every identity of the updated mapping visited so far is in exactly one
\* bucket: new_entries iff absent from the original mapping, updated_entries
\* iff present with a different text, otherwise counted as unchanged; no
\* identity is twice in the buckets, and the buckets follow the order of
\* first accepted occurrence in the updated input.
ClassifiedInOrder ==
    LET F == FirstAccepted(updated_entries)
        values == [p \in 1..pos |-> updated_lookup[p].value]
        InOld(r) == \E i \in 1..Len(original_lookup) : PyEq(original_lookup[i].key, r.id)
        OldText(r) ==
            original_lookup[CHOOSE i \in 1..Len(original_lookup) :
                                PyEq(original_lookup[i].key, r.id)].value.text
        IsNew(r) == ~InOld(r)
        IsUpdated(r) == InOld(r) /\ ~PyEq(OldText(r), r.text)
        IsSame(r) == InOld(r) /\ PyEq(OldText(r), r.text)
        buckets == new_entries \o updated_entries_list
    IN  /\ pos <= Len(updated_lookup)
        /\ Compared =>
             /\ Len(updated_lookup) = Cardinality(F)
             /\ \A p \in 1..Len(updated_lookup) :
                   updated_lookup[p].value = updated_entries[Nth(F, p)]
        /\ new_entries = SelectSeq(values, IsNew)
        /\ updated_entries_list = SelectSeq(values, IsUpdated)
        /\ unchanged_count = Len(SelectSeq(values, IsSame))
        /\ \A p, q \in 1..Len(buckets) :
              p # q => ~PyEq(buckets[p].id, buckets[q].id)

\* a comparison that put one entry in each bucket
ClassifiedWitness ==
    /\ results # None
    /\ Len(results[1].new_entries) = 1
    /\ Len(results[1].updated_entries) = 1

\* C6: every entry of new_entries and updated_entries is an entry of the
\* updated canonical mapping, unchanged; an identity of the original mapping
\* that the updated mapping lacks is in no bucket; an identity of the updated
\* mapping that the original one lacks is in new_entries as its input record.
BucketsFromUpdated ==
    LET F == FirstAccepted(updated_entries)
        G == FirstAccepted(original_entries)
        FromUpdated(b) == \A q \in 1..Len(b) : \E i \in F : b[q] = updated_entries[i]
        Without(b, k) == \A q \in 1..Len(b) : ~PyEq(b[q].id, k)
        buckets == new_entries \o updated_entries_list
    IN  /\ FromUpdated(buckets)
        /\ \A i \in G :
              (\A j \in F : ~PyEq(updated_entries[j].id, original_entries[i].id))
                 => Without(buckets, original_entries[i].id)
        /\ results # None =>
              /\ results[1].new_entries = new_entries
              /\ results[1].updated_entries = updated_entries_list
              /\ \A j \in F :
                    (\A i \in G : ~PyEq(updated_entries[j].id, original_entries[i].id))
                       => \E q \in 1..Len(new_entries) : new_entries[q] = updated_entries[j]
        /\ (output # None /\ output[1].complete) =>
              /\ output[1].new_entries = new_entries
              /\ output[1].updated_entries = updated_entries_list

\* a result with a new identity, the original file's identity being gone
BucketsWitness ==
    /\ results # None
    /\ Len(results[1].new_entries) = 1
    /\ Len(original_lookup) = 1
    /\ Len(updated_lookup) = 1

LoadFails == original_file.state # "list" \/ updated_file.state # "list"

\* C8: when loading an input fails the run ends with exit status 1 and a
\* logged error and save_results is never called; save_results is called only
\* after both loads and the comparison; the run returns 0 only after the
\* output was saved and the summary printed; a run ends only by returning.
LoadFailureAborts ==
    /\ LoadFails => ~save_called /\ output = None /\ exit_code # Some(0)
    /\ (LoadFails /\ pc = "returned") =>
          /\ exit_code = Some(1)
          /\ \E l \in 1..Len(log) : log[l].level = "ERROR"
    /\ save_called =>
          /\ original_file = FileList(original_entries)
          /\ updated_file = FileList(updated_entries)
          /\ results # None
    /\ exit_code = Some(0) =>
          save_called /\ output = Some(OutputData(results[1])) /\ printed
    /\ pc # "returned" => ENABLED Next
    /\ pc = "returned" <=> exit_code # None

\* a run whose second file holds no list, ended
LoadFailureWitness ==
    /\ pc = "returned"
    /\ original_file.state = "list"
    /\ updated_file.state = "notlist"
    /\ exit_code = Some(1)

\* C3: an entry with deleted: true is never stored in the mapping, with or
\* without id and text; it is skipped before the validation: it raises
\* nothing, is counted as deleted and is neither counted nor logged as invalid.
DeletedNeverStored ==
    /\ \A i \in 1..idx :
          MarkedDeleted(entries[i]) =>
             /\ entries[i] \notin Stored(lookup)
             /\ ~LoggedInvalid(i)
             /\ ~LoggedDuplicate(i)
    /\ deleted_count >= Cardinality({ i \in 1..idx : MarkedDeleted(entries[i]) })
    /\ invalid_count = Cardinality({ i \in 1..idx : LoggedInvalid(i) })
    /\ deleted_count + invalid_count + duplicate_count + Len(lookup) = idx
    /\ exc = "TypeError" => ~MarkedDeleted(entries[idx + 1])
    /\ \A r \in Stored(original_lookup) \cup Stored(updated_lookup) : ~MarkedDeleted(r)

\* a deleted entry without text was skipped and the next entry processed
DeletedWitness ==
    /\ pc = "build"
    /\ idx = 2
    /\ MarkedDeleted(entries[1])
    /\ entries[1].text = Absent
    /\ deleted_count = 1

\* C4 as stated: of any two entries of the list with the same id, whatever the
\* first one's deleted flag or missing fields, the mapping keeps the first and
\* the second gets exactly one duplicate warning.  Stated for a second entry
\* that is itself neither deleted nor invalid.
FirstOfAnyTwoWins ==
    \A i, j \in 1..idx :
       (/\ i < j
        /\ Accepted(entries[j])
        /\ entries[i].isdict
        /\ PyEq(entries[i].id, entries[j].id)
        /\ \A h \in 1..(i - 1) : ~(entries[h].isdict /\ PyEq(entries[h].id, entries[i].id)))
       => /\ entries[i] \in Stored(lookup)
          /\ entries[j] \notin Stored(lookup) \/ entries[j] = entries[i]
          /\ WarnedOnce({"Duplicate id"}, j)

\* C4, amended: of the entries of the list that are neither skipped as deleted
\* nor invalid, the mapping keeps the first of each id, and every later one of
\* that id gets exactly one duplicate warning and is not stored; the first
\* gets none.
FirstAcceptedWins ==
    /\ \A j \in 1..idx :
          Accepted(entries[j]) =>
             LET i == CHOOSE h \in 1..j :
                         /\ Accepted(entries[h])
                         /\ PyEq(entries[h].id, entries[j].id)
                         /\ \A g \in 1..(h - 1) :
                               Accepted(entries[g]) => ~PyEq(entries[g].id, entries[j].id)
             IN  /\ \E p \in 1..Len(lookup) :
                       /\ PyEq(lookup[p].key, entries[j].id)
                       /\ lookup[p].value = entries[i]
                 /\ IF i < j THEN WarnedOnce({"Duplicate id"}, j) ELSE ~LoggedDuplicate(j)
    /\ \A p, q \in 1..Len(lookup) : p # q => ~PyEq(lookup[p].key, lookup[q].key)
    /\ duplicate_count = Cardinality({ j \in 1..idx : LoggedDuplicate(j) })

\* two accepted entries of one id and different texts were processed
FirstWinsWitness ==
    /\ idx = 2
    /\ Accepted(entries[1]) /\ Accepted(entries[2])
    /\ PyEq(entries[1].id, entries[2].id)
    /\ entries[1] # entries[2]
    /\ duplicate_count = 1

\* C5: an entry that is not a dictionary, or lacks id, or lacks text is not
\* stored; when it is not deleted (the check of line 105 does not skip it) it
\* gets one invalid-record warning and is counted as invalid; it is in
\* neither bucket; it is never the entry at which the loop stops.
InvalidSkipped ==
    /\ \A i \in 1..idx : Malformed(entries[i]) => entries[i] \notin Stored(lookup)
    /\ \A i \in 1..idx :
          (~EqualsTrue(entries[i]) /\ Malformed(entries[i])) =>
             WarnedOnce(InvalidTexts, i)
    /\ invalid_count =
          Cardinality({ i \in 1..idx : ~EqualsTrue(entries[i]) /\ Malformed(entries[i]) })
    /\ exc = "TypeError" => ~Malformed(entries[idx + 1])
    /\ pc = "build" => exc = "none"
    /\ \A q \in 1..Len(new_entries) : ~Malformed(new_entries[q])
    /\ \A q \in 1..Len(updated_entries_list) : ~Malformed(updated_entries_list[q])
    /\ \A r \in Stored(original_lookup) \cup Stored(updated_lookup) : ~Malformed(r)

\* an invalid entry was skipped and the entry after it stored
InvalidWitness ==
    /\ pc = "build"
    /\ idx = 2
    /\ ~EqualsTrue(entries[1]) /\ Malformed(entries[1])
    /\ invalid_count = 1
    /\ Len(lookup) = 1

\* C9: build_lookup_dict never raises, whatever the entries.
BuildNeverRaises == exc # "TypeError"

\* C10 as stated: only the boolean true counts as deleted; an entry whose
\* deleted value is the number 1 or the string "true" is not counted as deleted.
OnlyBooleanTrueDeleted ==
    deleted_count = Cardinality({ i \in 1..idx : MarkedDeleted(entries[i]) })

\* C10, amended: the check is Python's == True and not truthiness: the
\* boolean true and the number 1 count as deleted; the string "true" does not,
\* and such an entry goes on to validation and, if valid, to the mapping.
EqualToTrueDeleted ==
    /\ deleted_count = Cardinality({ i \in 1..idx : EqualsTrue(entries[i]) })
    /\ \A i \in 1..idx :
          (entries[i].isdict /\ entries[i].deleted = JStr("true")) =>
             IF Malformed(entries[i])
             THEN LoggedInvalid(i)
             ELSE \E p \in 1..Len(lookup) : PyEq(lookup[p].key, entries[i].id)

\* an entry with deleted: 1 was skipped and one with deleted: "true" stored
EqualToTrueWitness ==
    /\ idx = 2
    /\ entries[1].deleted = JNum(1)
    /\ entries[2].deleted = JStr("true")
    /\ deleted_count = 1
    /\ Len(lookup) = 1

=============================================================================
